---- MODULE Spec2Model ----
(***************************************************************************)
(* Model of core-js-101, 05-objects-tasks: the css selector builder        *)
(* (SelectorBuilder, CombineSelectorBuilder, the cssSelectorBuilder        *)
(* facade), Rectangle and fromJSON.                                        *)
(*                                                                         *)
(* The repository holds two revisions of the module.  impl says which one  *)
(* is loaded: "tasks" is src/src/05-objects-tasks.js, where combine() is a *)
(* method of SelectorBuilder and marks the node with combineSelector;      *)
(* "part000" is src/unnamed/part_000, where combine() builds a             *)
(* CombineSelectorBuilder.                                                 *)
(*                                                                         *)
(* A JavaScript string is a sequence of one-character strings, so that     *)
(* concatenation is \o and a template literal is a concatenation.          *)
(***************************************************************************)
EXTENDS Integers, Sequences, FiniteSets, TLC

VARIABLES impl, heap, hist, last, rect, json

vars == <<impl, heap, hist, last, rect, json>>

(* ---------------------------------------------------------------- bounds *)

\* Nodes the facade may allocate in the tree specification (Spec).
MaxNodes == 3
\* Fragments held by all nodes together in the tree specification.
MaxFrags == 2
\* Fragments held by the one builder of the chain specification (SpecChain).
MaxChain == 5

\* Fragment values passed by the caller in the chain specification.
Values == {<<"a">>, <<"b">>}
\* Fragment values passed by the caller in the tree specification.
TreeValues == {<<"a">>}
\* Combinator symbols passed by the caller.
Combinators == {<<"+">>, <<" ">>}
\* Widths and heights are 0..MaxDim.
MaxDim == 3
\* Members of a JSON object text.
MaxMembers == 3
\* Keys of a JSON object text: names, array indices ("2" sorts before "10"
\* as a number and after it as a string) and the non-canonical "01".
Keys == {<<"a">>, <<"b">>, <<"2">>, <<"1", "0">>, <<"0", "1">>}
\* Values of a JSON object text.
JsonValues == {1, 2}

(* ------------------------------------------------------------- constants *)

TAG == "TAG"
ID == "ID"
CLASS == "CLASS"
ATTRIBUTE == "ATTRIBUTE"
PSEUDO_CLASS == "PSEUDO-CLASS"
PSEUDO_ELEMENT == "PSEUDO-ELEMENT"

elementsPathOrder == <<TAG, ID, CLASS, ATTRIBUTE, PSEUDO_CLASS, PSEUDO_ELEMENT>>

DuplicateError == "Element, id and pseudo-element should not occur more then one time inside the selector"
OrderError == "Selector parts should be arranged in the following order: element, id, class, attribute, pseudo-class, pseudo-element"
\* Calling a method an object does not have.
TypeError == "TypeError: not a function"

(* ------------------------------------------------- Array and Map helpers *)

\* Array.prototype.indexOf: the first position holding e (1-based), 0 if none.
indexOf(arr, e) ==
  IF \E i \in 1..Len(arr) : arr[i] = e
  THEN CHOOSE i \in 1..Len(arr) : arr[i] = e /\ \A j \in 1..(i - 1) : arr[j] # e
  ELSE 0

RECURSIVE join(_)
\* Array.prototype.join(''): the elements' texts one after the other.
join(arr) == IF arr = <<>> THEN <<>> ELSE Head(arr) \o join(Tail(arr))

\* A Map is the sequence of its entries in insertion order.
\* An entry: key, whether the value is an array, the value.
mapHas(m, key) == \E i \in 1..Len(m) : m[i].key = key

\* Map.prototype.set: an existing key keeps its position, a new key goes last.
mapSet(m, key, isArray, value) ==
  LET e == [key |-> key, isArray |-> isArray, value |-> value]
  IN IF mapHas(m, key)
     THEN [i \in 1..Len(m) |-> IF m[i].key = key THEN e ELSE m[i]]
     ELSE Append(m, e)

(* ------------------------------------------------------- SelectorBuilder *)

\* new SelectorBuilder(): an empty map, not a combination.
NewSelectorBuilder ==
  [cls |-> "SelectorBuilder", map |-> <<>>, combineSelector |-> FALSE,
   selector1 |-> 0, combinator |-> <<>>, selector2 |-> 0]

\* new CombineSelectorBuilder(selector1, combinator, selector2) of part_000.
NewCombineSelectorBuilder(selector1, combinator, selector2) ==
  [cls |-> "CombineSelectorBuilder", map |-> <<>>, combineSelector |-> FALSE,
   selector1 |-> selector1, combinator |-> combinator, selector2 |-> selector2]

\* TRUE when the check throws.
checkPseudoElementExist(node) == mapHas(node.map, PSEUDO_ELEMENT)

checkIdExist(node) == mapHas(node.map, ID)

checkElementExist(node) == mapHas(node.map, TAG)

\* checkElementOrder with the scan starting one kind too far.
checkElementOrder_skipNext(node, element) ==
  LET index == indexOf(elementsPathOrder, element)
  IN \E i \in (index + 2)..Len(elementsPathOrder) :
       mapHas(node.map, elementsPathOrder[i])

\* TRUE when the check throws: some kind after element is in the map.
checkElementOrder(node, element) ==
  LET index == indexOf(elementsPathOrder, element)
  IN \E i \in (index + 1)..Len(elementsPathOrder) :
       mapHas(node.map, elementsPathOrder[i])

\* setArrayValueToMap with unshift in place of push.
setArrayValueToMap_unshift(m, key, value) ==
  IF mapHas(m, key)
  THEN [i \in 1..Len(m) |->
          IF m[i].key = key
          THEN [m[i] EXCEPT !.value = <<value>> \o m[i].value]
          ELSE m[i]]
  ELSE mapSet(m, key, TRUE, <<value>>)

setArrayValueToMap(m, key, value) ==
  IF mapHas(m, key)
  THEN [i \in 1..Len(m) |->
          IF m[i].key = key
          THEN [m[i] EXCEPT !.value = Append(m[i].value, value)]
          ELSE m[i]]
  ELSE mapSet(m, key, TRUE, <<value>>)

\* The result of a method call: the heap after it, how it ended, what it
\* returned (a node, 0 when nothing is returned).
Throw(h, error) == [heap |-> h, outcome |-> error, ret |-> 0]

Return(h, this) == [heap |-> h, outcome |-> "ok", ret |-> this]

\* element with the order check before the duplicate check.
element_orderFirst(h, this, value) ==
  IF checkElementOrder(h[this], TAG) THEN Throw(h, OrderError)
  ELSE IF checkElementExist(h[this]) THEN Throw(h, DuplicateError)
  ELSE Return([h EXCEPT ![this].map = mapSet(@, TAG, FALSE, value)], this)

element(h, this, value) ==
  IF checkElementExist(h[this]) THEN Throw(h, DuplicateError)
  ELSE IF checkElementOrder(h[this], TAG) THEN Throw(h, OrderError)
  ELSE Return([h EXCEPT ![this].map = mapSet(@, TAG, FALSE, value)], this)

\* id with the order check before the duplicate check.
id_orderFirst(h, this, value) ==
  IF checkElementOrder(h[this], ID) THEN Throw(h, OrderError)
  ELSE IF checkIdExist(h[this]) THEN Throw(h, DuplicateError)
  ELSE Return([h EXCEPT ![this].map = mapSet(@, ID, FALSE, <<"#">> \o value)], this)

\* id writing the fragment before the order check.
id_setFirst(h, this, value) ==
  IF checkIdExist(h[this]) THEN Throw(h, DuplicateError)
  ELSE IF checkElementOrder(h[this], ID)
  THEN Throw([h EXCEPT ![this].map = mapSet(@, ID, FALSE, <<"#">> \o value)],
             OrderError)
  ELSE Return([h EXCEPT ![this].map = mapSet(@, ID, FALSE, <<"#">> \o value)], this)

id(h, this, value) ==
  IF checkIdExist(h[this]) THEN Throw(h, DuplicateError)
  ELSE IF checkElementOrder(h[this], ID) THEN Throw(h, OrderError)
  ELSE Return([h EXCEPT ![this].map = mapSet(@, ID, FALSE, <<"#">> \o value)], this)

\* class without its return statement: the call returns undefined.
class_noReturn(h, this, value) ==
  IF checkElementOrder(h[this], CLASS) THEN Throw(h, OrderError)
  ELSE Return([h EXCEPT ![this].map =
                 setArrayValueToMap(@, CLASS, <<".">> \o value)], 0)

class(h, this, value) ==
  IF checkElementOrder(h[this], CLASS) THEN Throw(h, OrderError)
  ELSE Return([h EXCEPT ![this].map =
                 setArrayValueToMap(@, CLASS, <<".">> \o value)], this)

\* attr without its order check.
attr_noOrderCheck(h, this, value) ==
  Return([h EXCEPT ![this].map =
            setArrayValueToMap(@, ATTRIBUTE, <<"[">> \o value \o <<"]">>)], this)

attr(h, this, value) ==
  IF checkElementOrder(h[this], ATTRIBUTE) THEN Throw(h, OrderError)
  ELSE Return([h EXCEPT ![this].map =
                 setArrayValueToMap(@, ATTRIBUTE, <<"[">> \o value \o <<"]">>)], this)

pseudoClass(h, this, value) ==
  IF checkElementOrder(h[this], PSEUDO_CLASS) THEN Throw(h, OrderError)
  ELSE Return([h EXCEPT ![this].map =
                 setArrayValueToMap(@, PSEUDO_CLASS, <<":">> \o value)], this)

\* pseudoElement calling checkElementExist in place of
\* checkPseudoElementExist.
pseudoElement_checksElement(h, this, value) ==
  IF checkElementExist(h[this]) THEN Throw(h, DuplicateError)
  ELSE IF checkElementOrder(h[this], PSEUDO_ELEMENT) THEN Throw(h, OrderError)
  ELSE Return([h EXCEPT ![this].map =
                 mapSet(@, PSEUDO_ELEMENT, FALSE, <<":", ":">> \o value)], this)

pseudoElement(h, this, value) ==
  IF checkPseudoElementExist(h[this]) THEN Throw(h, DuplicateError)
  ELSE IF checkElementOrder(h[this], PSEUDO_ELEMENT) THEN Throw(h, OrderError)
  ELSE Return([h EXCEPT ![this].map =
                 mapSet(@, PSEUDO_ELEMENT, FALSE, <<":", ":">> \o value)], this)

\* SelectorBuilder.combine of 05-objects-tasks.js.
combine(h, this, selector1, combinator, selector2) ==
  Return([h EXCEPT ![this].selector1 = selector1,
                   ![this].combinator = combinator,
                   ![this].selector2 = selector2,
                   ![this].combineSelector = TRUE], this)

RECURSIVE mapRender(_)
\* The forEach of stringify: each value in the map's order, an array joined.
mapRender(m) ==
  IF m = <<>> THEN <<>>
  ELSE (IF Head(m).isArray THEN join(Head(m).value) ELSE Head(m).value)
       \o mapRender(Tail(m))

RECURSIVE stringify(_, _)
\* stringify() on node this: the heap after the call and the string returned.
\* The left child is rendered, then the right one, each on the heap the
\* calls before it left.
stringify(h, this) ==
  IF h[this].cls = "CombineSelectorBuilder"
  THEN LET r1 == stringify(h, h[this].selector1)
           r2 == stringify(r1.heap, r1.heap[this].selector2)
       IN [heap |-> r2.heap,
           out |-> r1.out \o <<" ">> \o r2.heap[this].combinator \o <<" ">> \o r2.out]
  ELSE IF h[this].combineSelector
  THEN LET h0 == [h EXCEPT ![this].combineSelector = FALSE]
           r1 == stringify(h0, h0[this].selector1)
           r2 == stringify(r1.heap, r1.heap[this].selector2)
       IN [heap |-> r2.heap,
           out |-> r1.out \o <<" ">> \o r1.heap[this].combinator \o <<" ">> \o r2.out]
  ELSE [heap |-> h, out |-> mapRender(h[this].map)]

(* ----------------------------------------------------------------- state *)

\* impl: the revision loaded ("tasks" or "part000").
\* heap: the nodes allocated so far; a node is named by its position.
\* hist: for each node, the fragments its successful calls inserted, as
\*       (kind, value) in call order.
\* last: the last call made: the method, whether through the facade, the
\*       receiver, how it ended, the node returned and the
\*       string returned.
\* rect: the object Rectangle returned (width, height), the parameters its
\*       getArea closes over (recWidth, recHeight), the last getArea()
\*       result and the last operation.
\* json: the text given to fromJSON (its members in text order), the keys
\*       of the parsed object in Object.values order and the arguments the
\*       constructor received.

NoCall ==
  [op |-> "none", facade |-> FALSE, node |-> 0,
   outcome |-> "ok", ret |-> 0, out |-> <<>>]

RectIdle ==
  [width |-> 0, height |-> 0, recWidth |-> 0, recHeight |-> 0, area |-> 0,
   op |-> "idle"]

JsonIdle == [text |-> <<>>, keys |-> <<>>, args |-> <<>>, op |-> "idle"]

RECURSIVE TotalFrags(_)
\* The fragments held by all the nodes of h.
TotalFrags(h) ==
  IF h = <<>> THEN 0
  ELSE LET m == Head(h).map
           n == IF m = <<>> THEN 0
                ELSE Len(join([i \in 1..Len(m) |->
                       IF m[i].isArray THEN [j \in 1..Len(m[i].value) |-> "x"]
                       ELSE <<"x">>]))
       IN n + TotalFrags(Tail(h))

\* The tree specification: up to MaxNodes nodes holding MaxFrags fragments.
InTree(h) == Len(h) <= MaxNodes /\ TotalFrags(h) <= MaxFrags

\* The chain specification: one builder holding up to MaxChain fragments.
InChain(h) == Len(h) <= 1 /\ TotalFrags(h) <= MaxChain

Init ==
  /\ impl \in {"tasks", "part000"}
  /\ heap = <<>>
  /\ hist = <<>>
  /\ last = NoCall
  /\ rect = RectIdle
  /\ json = JsonIdle

\* The facade's new SelectorBuilder().<method>(value): res is the method's
\* result on the heap extended with the new builder.
FacadeCall(op, kind, value, res) ==
  /\ heap' = res.heap
  /\ hist' = Append(hist, IF res.outcome = "ok"
                          THEN <<[kind |-> kind, value |-> value]>> ELSE <<>>)
  /\ last' = [op |-> op, facade |-> TRUE, node |-> Len(res.heap),
              outcome |-> res.outcome, ret |-> res.ret, out |-> <<>>]
  /\ UNCHANGED <<impl, rect, json>>

\* A method called on the handle of node this.  A CombineSelectorBuilder has
\* no fragment methods: the call is a TypeError.
MethodCall(op, kind, this, value, res) ==
  /\ heap' = res.heap
  /\ hist' = IF res.outcome = "ok"
             THEN [hist EXCEPT ![this] = Append(@, [kind |-> kind, value |-> value])]
             ELSE hist
  /\ last' = [op |-> op, facade |-> FALSE, node |-> this,
              outcome |-> res.outcome, ret |-> res.ret, out |-> <<>>]
  /\ UNCHANGED <<impl, rect, json>>

Fresh == Append(heap, NewSelectorBuilder)

IsBuilder(this) == heap[this].cls = "SelectorBuilder"

FacadeElement(value) ==
  FacadeCall("element", TAG, value, element(Fresh, Len(Fresh), value))

FacadeId(value) ==
  FacadeCall("id", ID, value, id(Fresh, Len(Fresh), value))

FacadeClass(value) ==
  FacadeCall("class", CLASS, value, class(Fresh, Len(Fresh), value))

FacadeAttr(value) ==
  FacadeCall("attr", ATTRIBUTE, value, attr(Fresh, Len(Fresh), value))

FacadePseudoClass(value) ==
  FacadeCall("pseudoClass", PSEUDO_CLASS, value, pseudoClass(Fresh, Len(Fresh), value))

FacadePseudoElement(value) ==
  FacadeCall("pseudoElement", PSEUDO_ELEMENT, value, pseudoElement(Fresh, Len(Fresh), value))

\* cssSelectorBuilder.combine: a SelectorBuilder marked as a combination in
\* 05-objects-tasks.js, a CombineSelectorBuilder in part_000.
FacadeCombine(selector1, combinator, selector2) ==
  LET res == IF impl = "tasks"
             THEN combine(Fresh, Len(Fresh), selector1, combinator, selector2)
             ELSE Return(Append(heap,
                    NewCombineSelectorBuilder(selector1, combinator, selector2)),
                    Len(heap) + 1)
  IN /\ heap' = res.heap
     /\ hist' = Append(hist, <<>>)
     /\ last' = [op |-> "combine", facade |-> TRUE, node |-> Len(res.heap),
                 outcome |-> res.outcome, ret |-> res.ret,
                 out |-> <<>>]
     /\ UNCHANGED <<impl, rect, json>>

Element(this, value) ==
  MethodCall("element", TAG, this, value,
    IF IsBuilder(this) THEN element(heap, this, value) ELSE Throw(heap, TypeError))

Id(this, value) ==
  MethodCall("id", ID, this, value,
    IF IsBuilder(this) THEN id(heap, this, value) ELSE Throw(heap, TypeError))

Class(this, value) ==
  MethodCall("class", CLASS, this, value,
    IF IsBuilder(this) THEN class(heap, this, value) ELSE Throw(heap, TypeError))

Attr(this, value) ==
  MethodCall("attr", ATTRIBUTE, this, value,
    IF IsBuilder(this) THEN attr(heap, this, value) ELSE Throw(heap, TypeError))

PseudoClass(this, value) ==
  MethodCall("pseudoClass", PSEUDO_CLASS, this, value,
    IF IsBuilder(this) THEN pseudoClass(heap, this, value) ELSE Throw(heap, TypeError))

PseudoElement(this, value) ==
  MethodCall("pseudoElement", PSEUDO_ELEMENT, this, value,
    IF IsBuilder(this) THEN pseudoElement(heap, this, value) ELSE Throw(heap, TypeError))

Stringify(this) ==
  LET res == stringify(heap, this)
  IN /\ heap' = res.heap
     /\ last' = [op |-> "stringify", facade |-> FALSE, node |-> this,
                 outcome |-> "ok", ret |-> 0, out |-> res.out]
     /\ UNCHANGED <<impl, hist, rect, json>>

Nodes == 1..Len(heap)

Next ==
  \/ \E value \in TreeValues : FacadeElement(value) /\ InTree(heap')
  \/ \E value \in TreeValues : FacadeId(value) /\ InTree(heap')
  \/ \E value \in TreeValues : FacadeClass(value) /\ InTree(heap')
  \/ \E value \in TreeValues : FacadeAttr(value) /\ InTree(heap')
  \/ \E value \in TreeValues : FacadePseudoClass(value) /\ InTree(heap')
  \/ \E value \in TreeValues : FacadePseudoElement(value) /\ InTree(heap')
  \/ \E selector1 \in Nodes, selector2 \in Nodes, combinator \in Combinators :
       FacadeCombine(selector1, combinator, selector2) /\ InTree(heap')
  \/ \E this \in Nodes, value \in TreeValues : Element(this, value) /\ InTree(heap')
  \/ \E this \in Nodes, value \in TreeValues : Id(this, value) /\ InTree(heap')
  \/ \E this \in Nodes, value \in TreeValues : Class(this, value) /\ InTree(heap')
  \/ \E this \in Nodes, value \in TreeValues : Attr(this, value) /\ InTree(heap')
  \/ \E this \in Nodes, value \in TreeValues : PseudoClass(this, value) /\ InTree(heap')
  \/ \E this \in Nodes, value \in TreeValues : PseudoElement(this, value) /\ InTree(heap')
  \/ \E this \in Nodes : Stringify(this)

\* The tree specification: every operation of the facade and of the nodes.
Spec == Init /\ [][Next]_vars

NextChain ==
  \/ \E value \in Values : FacadeElement(value) /\ InChain(heap')
  \/ \E value \in Values : FacadeId(value) /\ InChain(heap')
  \/ \E value \in Values : FacadeClass(value) /\ InChain(heap')
  \/ \E value \in Values : FacadeAttr(value) /\ InChain(heap')
  \/ \E value \in Values : FacadePseudoClass(value) /\ InChain(heap')
  \/ \E value \in Values : FacadePseudoElement(value) /\ InChain(heap')
  \/ \E this \in Nodes, value \in Values : Element(this, value) /\ InChain(heap')
  \/ \E this \in Nodes, value \in Values : Id(this, value) /\ InChain(heap')
  \/ \E this \in Nodes, value \in Values : Class(this, value) /\ InChain(heap')
  \/ \E this \in Nodes, value \in Values : Attr(this, value) /\ InChain(heap')
  \/ \E this \in Nodes, value \in Values : PseudoClass(this, value) /\ InChain(heap')
  \/ \E this \in Nodes, value \in Values : PseudoElement(this, value) /\ InChain(heap')
  \/ \E this \in Nodes : Stringify(this)

\* The chain specification: one builder made by the facade and the calls
\* chained on it.
SpecChain == Init /\ [][NextChain]_vars

(* ------------------------------------------------------------- Rectangle *)

Dims == 0..MaxDim

\* Rectangle(recWidth, recHeight): the object returned and its closure.
Rectangle(recWidth, recHeight) ==
  [width |-> recWidth, height |-> recHeight,
   recWidth |-> recWidth, recHeight |-> recHeight, area |-> 0, op |-> "Rectangle"]

\* r.getArea(): the arrow function of the object literal.
getArea(r) == r.recWidth * r.recHeight

RectangleCall(recWidth, recHeight) ==
  /\ rect' = Rectangle(recWidth, recHeight)
  /\ UNCHANGED <<impl, heap, hist, last, json>>

\* The caller assigns r.width.
SetWidth(width) ==
  /\ rect.op # "idle"
  /\ rect' = [rect EXCEPT !.width = width, !.op = "setWidth"]
  /\ UNCHANGED <<impl, heap, hist, last, json>>

\* The caller assigns r.height.
SetHeight(height) ==
  /\ rect.op # "idle"
  /\ rect' = [rect EXCEPT !.height = height, !.op = "setHeight"]
  /\ UNCHANGED <<impl, heap, hist, last, json>>

GetArea ==
  /\ rect.op # "idle"
  /\ rect' = [rect EXCEPT !.area = getArea(rect), !.op = "getArea"]
  /\ UNCHANGED <<impl, heap, hist, last, json>>

NextRect ==
  \/ \E recWidth \in Dims, recHeight \in Dims : RectangleCall(recWidth, recHeight)
  \/ \E width \in Dims : SetWidth(width)
  \/ \E height \in Dims : SetHeight(height)
  \/ GetArea

\* The Rectangle specification.
SpecRect == Init /\ [][NextRect]_vars

(* -------------------------------------------------------------- fromJSON *)

Members == [key : Keys, value : JsonValues]

\* The object texts of up to MaxMembers members.
Texts == UNION {[1..n -> Members] : n \in 0..MaxMembers}

Digits == <<"0", "1", "2", "3", "4", "5", "6", "7", "8", "9">>

IsDigit(c) == \E d \in 1..Len(Digits) : Digits[d] = c

RECURSIVE ToNumber(_)
\* The number a digit string denotes.
ToNumber(key) ==
  IF key = <<>> THEN 0
  ELSE 10 * ToNumber(SubSeq(key, 1, Len(key) - 1))
       + (indexOf(Digits, key[Len(key)]) - 1)

\* A property key that is an integer index: the canonical decimal text of a
\* non-negative integer ("0", "2", "10", not "01").
IsIntegerIndex(key) ==
  /\ Len(key) >= 1
  /\ \A i \in 1..Len(key) : IsDigit(key[i])
  /\ (Len(key) = 1 \/ key[1] # "0")

RECURSIVE JSONparse(_, _)
\* JSON.parse of an object text: each member defines the property of its
\* key on the object so far, obj, the properties in creation order.  A key
\* seen before keeps its place and takes the new value.
JSONparse(obj, text) ==
  IF text = <<>> THEN obj
  ELSE LET m == Head(text)
           next == IF \E i \in 1..Len(obj) : obj[i].key = m.key
                   THEN [i \in 1..Len(obj) |->
                           IF obj[i].key = m.key THEN m ELSE obj[i]]
                   ELSE Append(obj, m)
       IN JSONparse(next, Tail(text))

RECURSIVE Ascending(_)
\* The integer-index properties of obj in ascending numeric order.
Ascending(obj) ==
  IF obj = <<>> THEN <<>>
  ELSE LET i == CHOOSE i \in 1..Len(obj) :
                  \A j \in 1..Len(obj) : ToNumber(obj[i].key) <= ToNumber(obj[j].key)
       IN <<obj[i]>> \o Ascending(SubSeq(obj, 1, i - 1) \o SubSeq(obj, i + 1, Len(obj)))

\* The own properties of obj in the order Object.values visits them:
\* integer indices in ascending order, then the other keys in creation order.
OwnProperties(obj) ==
  Ascending(SelectSeq(obj, LAMBDA p : IsIntegerIndex(p.key)))
  \o SelectSeq(obj, LAMBDA p : ~IsIntegerIndex(p.key))

\* fromJSON spreading the values last to first.
fromJSON_reversed(text) ==
  LET obj == JSONparse(<<>>, text)
      props == OwnProperties(obj)
  IN [keys |-> [i \in 1..Len(props) |-> props[i].key],
      args |-> [i \in 1..Len(props) |-> props[Len(props) + 1 - i].value]]

\* fromJSON(proto, json): the keys in Object.values order and the arguments
\* new proto.constructor(...values) receives.
fromJSON(text) ==
  LET obj == JSONparse(<<>>, text)
      props == OwnProperties(obj)
  IN [keys |-> [i \in 1..Len(props) |-> props[i].key],
      args |-> [i \in 1..Len(props) |-> props[i].value]]

InitJSON ==
  /\ impl \in {"tasks", "part000"}
  /\ heap = <<>>
  /\ hist = <<>>
  /\ last = NoCall
  /\ rect = RectIdle
  /\ json \in {[JsonIdle EXCEPT !.text = t] : t \in Texts}

FromJSON ==
  /\ json.op = "idle"
  /\ json' = [json EXCEPT !.keys = fromJSON(json.text).keys,
                          !.args = fromJSON(json.text).args,
                          !.op = "fromJSON"]
  /\ UNCHANGED <<impl, heap, hist, last, rect>>

NextJSON == FromJSON

\* The fromJSON specification: every object text over Keys and JsonValues.
SpecJSON == InitJSON /\ [][NextJSON]_vars

(* ------------------------------------------------ claims: the builder *)

FragmentOps == {"element", "id", "class", "attr", "pseudoClass", "pseudoElement"}

\* The fragment kind a method inserts.
KindOf(op) ==
  CASE op = "element" -> TAG
    [] op = "id" -> ID
    [] op = "class" -> CLASS
    [] op = "attr" -> ATTRIBUTE
    [] op = "pseudoClass" -> PSEUDO_CLASS
    [] op = "pseudoElement" -> PSEUDO_ELEMENT

\* The position of a kind in Type < Id < Class < Attribute < PseudoClass <
\* PseudoElement.
KindRank(kind) ==
  CASE kind = TAG -> 1
    [] kind = ID -> 2
    [] kind = CLASS -> 3
    [] kind = ATTRIBUTE -> 4
    [] kind = PSEUDO_CLASS -> 5
    [] kind = PSEUDO_ELEMENT -> 6

Singletons == {TAG, ID, PSEUDO_ELEMENT}

\* The text of a fragment with its sigil.
Sigil(kind, value) ==
  CASE kind = TAG -> value
    [] kind = ID -> <<"#">> \o value
    [] kind = CLASS -> <<".">> \o value
    [] kind = ATTRIBUTE -> <<"[">> \o value \o <<"]">>
    [] kind = PSEUDO_CLASS -> <<":">> \o value
    [] kind = PSEUDO_ELEMENT -> <<":", ":">> \o value

\* A sequence of kinds of the shape Type?, Id?, Class*, Attribute*,
\* PseudoClass*, PseudoElement?.
FollowsOrder(kinds) ==
  /\ \A i \in 1..Len(kinds), j \in 1..Len(kinds) :
       i < j => KindRank(kinds[i]) <= KindRank(kinds[j])
  /\ \A i \in 1..Len(kinds), j \in 1..Len(kinds) :
       (i # j /\ kinds[i] \in Singletons) => kinds[i] # kinds[j]

KindsOf(frags) == [i \in 1..Len(frags) |-> frags[i].kind]

RECURSIVE OfKind(_, _)
\* The sigil-prefixed texts of the fragments of one kind, in insertion order.
OfKind(frags, kind) ==
  IF frags = <<>> THEN <<>>
  ELSE (IF Head(frags).kind = kind THEN Sigil(kind, Head(frags).value) ELSE <<>>)
       \o OfKind(Tail(frags), kind)

\* The fragments rendered in the fixed kind order, without separators.
Expected(frags) ==
  OfKind(frags, TAG) \o OfKind(frags, ID) \o OfKind(frags, CLASS)
  \o OfKind(frags, ATTRIBUTE) \o OfKind(frags, PSEUDO_CLASS)
  \o OfKind(frags, PSEUDO_ELEMENT)

\* C1: on one simple builder, an insertion that keeps the sequence of
\* insertions in the order Type?, Id?, Class*, Attribute*, PseudoClass*,
\* PseudoElement? succeeds (a failed insertion is one that would have left
\* that order), and stringify() returns the sigil-prefixed texts of the
\* inserted fragments in kind order, a repeatable kind's fragments in
\* insertion order, with no separators.
C1_ValidOrderRenders ==
  /\ (last.op \in FragmentOps /\ last.outcome # "ok")
       => ~FollowsOrder(Append(KindsOf(hist[last.node]), KindOf(last.op)))
  /\ (last.op = "stringify" /\ FollowsOrder(KindsOf(hist[last.node])))
       => last.out = Expected(hist[last.node])

\* A builder holding a Type, two different classes in a row and a later kind
\* has been rendered.
C1_Witness ==
  /\ last.op = "stringify"
  /\ LET frags == hist[last.node]
     IN /\ Len(frags) >= 4
        /\ frags[1].kind = TAG
        /\ \E i \in 1..(Len(frags) - 2) :
             /\ frags[i].kind = CLASS /\ frags[i + 1].kind = CLASS
             /\ frags[i].value # frags[i + 1].value
             /\ KindRank(frags[i + 2].kind) > KindRank(CLASS)
        /\ last.out = Expected(frags)

\* C2: element, id or pseudoElement called on a simple builder that already
\* holds that fragment fails with the duplicate-fragment error, whatever else
\* the builder holds.
C2_DuplicateAlwaysFails ==
  [][(/\ last'.op \in {"element", "id", "pseudoElement"}
      /\ ~last'.facade
      /\ mapHas(heap[last'.node].map, KindOf(last'.op)))
     => last'.outcome = DuplicateError]_vars

\* element was refused as a duplicate on a builder that also holds a later
\* kind.
C2_Witness ==
  /\ last.op = "element" /\ ~last.facade
  /\ last.outcome = DuplicateError
  /\ mapHas(heap[last.node].map, TAG)
  /\ mapHas(heap[last.node].map, ATTRIBUTE)

\* Some fragment of a kind after kind is in the map.
GreaterPresent(node, kind) ==
  \E i \in 1..Len(node.map) : KindRank(node.map[i].key) > KindRank(kind)

\* C3 as stated: inserting kind K into a simple builder holding a fragment
\* of a kind after K raises the order-violation error, in every prior state.
C3_OrderErrorAlways ==
  [][(/\ last'.op \in FragmentOps
      /\ ~last'.facade
      /\ GreaterPresent(heap[last'.node], KindOf(last'.op)))
     => last'.outcome = OrderError]_vars

\* C3 amended: inserting kind K into a simple builder holding a fragment of
\* a kind after K fails: with the duplicate-fragment error when K is Type or
\* Id and the builder already holds K, with the order-violation error
\* otherwise.
C3_OrderErrorUnlessDuplicate ==
  [][(/\ last'.op \in FragmentOps
      /\ ~last'.facade
      /\ GreaterPresent(heap[last'.node], KindOf(last'.op)))
     => last'.outcome =
          IF /\ KindOf(last'.op) \in {TAG, ID}
             /\ mapHas(heap[last'.node].map, KindOf(last'.op))
          THEN DuplicateError ELSE OrderError]_vars

\* element was refused for its order on a builder holding only an attribute.
C3_Witness ==
  /\ last.op = "element" /\ ~last.facade
  /\ last.outcome = OrderError
  /\ Len(heap[last.node].map) = 1
  /\ heap[last.node].map[1].key = ATTRIBUTE

\* C9: a successful fragment call returns the builder it was made on (the
\* facade's call, the builder it made).
C9_ReturnsThis ==
  (last.op \in FragmentOps /\ last.outcome = "ok") => last.ret = last.node

\* A chained class call succeeded on a builder that held a fragment already.
C9_Witness ==
  /\ last.op = "class" /\ ~last.facade
  /\ last.outcome = "ok"
  /\ last.ret = last.node
  /\ Len(hist[last.node]) >= 2

(* --------------------------------------------------- claims: the tree *)

\* What stringify() on node this would return in heap h.
Render(h, this) == stringify(h, this).out

\* A node made by combine.
IsCombination(node) == node.selector1 # 0

RECURSIVE Reaches(_, _, _)
\* Node to is from, or a descendant of from.
Reaches(h, from, to) ==
  \/ from = to
  \/ /\ IsCombination(h[from])
     /\ \/ Reaches(h, h[from].selector1, to)
        \/ Reaches(h, h[from].selector2, to)

\* C4: stringify() on combine(A, s, B) returns A.stringify(), a space, s, a
\* space and B.stringify(), for any nodes A and B (combinations or not, the
\* same node or not).
C4_CombineRenders ==
  [][(/\ last'.op = "stringify"
      /\ IsCombination(heap[last'.node]))
     => LET node == heap[last'.node]
        IN last'.out = Render(heap, node.selector1) \o <<" ">> \o node.combinator
                       \o <<" ">> \o Render(heap, node.selector2)]_vars

\* C5: two stringify() calls on a node with no call between them return the
\* same string.
C5_StringifyRepeatable ==
  [][(/\ last.op = "stringify"
      /\ last'.op = "stringify"
      /\ last'.node = last.node)
     => last'.out = last.out]_vars

\* C6: stringify() leaves every field of every node as it was.
C6_StringifyChangesNothing ==
  [][last'.op = "stringify" => heap' = heap]_vars

\* C7: a facade fragment call returns a new builder holding exactly the one
\* fragment, combine returns a new node, the nodes there before are left as
\* they were, and a call on a node changes the rendering of no node other
\* than that node and its ancestors.
C7_NodesAreIndependent ==
  [][/\ (last'.facade /\ last'.op \in FragmentOps)
          => /\ Len(heap') = Len(heap) + 1
             /\ last'.ret = Len(heap')
             /\ SubSeq(heap', 1, Len(heap)) = heap
             /\ ~IsCombination(heap'[Len(heap')])
             /\ Len(heap'[Len(heap')].map) = 1
             /\ heap'[Len(heap')].map[1].key = KindOf(last'.op)
             /\ hist'[Len(heap')] = <<[kind |-> KindOf(last'.op),
                                       value |-> hist'[Len(heap')][1].value]>>
     /\ (last'.op = "combine")
          => /\ Len(heap') = Len(heap) + 1
             /\ last'.ret = Len(heap')
             /\ SubSeq(heap', 1, Len(heap)) = heap
     /\ (last'.op # "none")
          => \A other \in 1..Len(heap) :
               (other # last'.node /\ ~Reaches(heap, other, last'.node))
                 => Render(heap', other) = Render(heap, other)]_vars

(* ---------------------------------------------- claims: Rectangle, JSON *)

\* C8: getArea() returns the product of the object's width and height
\* fields as they are at the call.
C8_AreaOfCurrentFields ==
  rect.op = "getArea" => rect.area = rect.width * rect.height

\* The values of the members of a text, in text order.
TextValues(text) == [i \in 1..Len(text) |-> text[i].value]

FirstPos(text, key) ==
  CHOOSE i \in 1..Len(text) :
    text[i].key = key /\ \A j \in 1..(i - 1) : text[j].key # key

LastPos(text, key) ==
  CHOOSE i \in 1..Len(text) :
    text[i].key = key /\ \A j \in (i + 1)..Len(text) : text[j].key # key

\* Key k1 is passed before key k2.
PassedBefore(text, k1, k2) ==
  IF IsIntegerIndex(k1) /\ IsIntegerIndex(k2) THEN ToNumber(k1) < ToNumber(k2)
  ELSE IF IsIntegerIndex(k1) # IsIntegerIndex(k2) THEN IsIntegerIndex(k1)
  ELSE FirstPos(text, k1) < FirstPos(text, k2)

\* No key occurs twice in the text.
NoRepeatedKey(text) ==
  \A i \in 1..Len(text), j \in 1..Len(text) : i # j => text[i].key # text[j].key

\* No key of the text is an integer index and no key occurs twice.
PlainText(text) ==
  /\ \A i \in 1..Len(text) : ~IsIntegerIndex(text[i].key)
  /\ NoRepeatedKey(text)

\* C10 as stated: the constructor receives the values in the order in which
\* the keys appear in the JSON text, digit-string keys included (read for
\* the texts in which every key appears once).
C10_ArgsInTextOrder ==
  (json.op = "fromJSON" /\ NoRepeatedKey(json.text))
    => json.args = TextValues(json.text)

\* C10 amended: the constructor receives one value for each distinct key,
\* the value of the key's last occurrence; the keys that are integer indices
\* ("2", "10"; not "01") come first in ascending numeric order, then the
\* other keys in the order of their first appearance in the text.  For a
\* text with no integer-index key and no repeated key this is the order in
\* which the keys appear in the text.
C10_ArgsInOwnPropertyOrder ==
  json.op = "fromJSON" =>
    LET text == json.text
        keys == json.keys
        args == json.args
    IN /\ Len(args) = Len(keys)
       /\ {keys[i] : i \in 1..Len(keys)} = {text[i].key : i \in 1..Len(text)}
       /\ \A i \in 1..Len(keys) : args[i] = text[LastPos(text, keys[i])].value
       /\ \A i \in 1..Len(keys), j \in 1..Len(keys) :
            i < j => PassedBefore(text, keys[i], keys[j])
       /\ PlainText(text) => args = TextValues(text)

\* A text "b", "10", "2" with different values was passed as "2", "10", "b".
C10_Witness ==
  /\ json.op = "fromJSON"
  /\ Len(json.text) = 3
  /\ [i \in 1..3 |-> json.text[i].key] = <<<<"b">>, <<"1", "0">>, <<"2">>>>
  /\ json.keys = <<<<"2">>, <<"1", "0">>, <<"b">>>>
  /\ json.text[1].value # json.text[3].value
  /\ json.args # TextValues(json.text)

(* ------------------------------------- claims: failures and the order *)

\* How the call of method op with value on node this of heap h would end.
OutcomeOf(h, this, op, value) ==
  CASE op = "element" -> element(h, this, value).outcome
    [] op = "id" -> id(h, this, value).outcome
    [] op = "class" -> class(h, this, value).outcome
    [] op = "attr" -> attr(h, this, value).outcome
    [] op = "pseudoClass" -> pseudoClass(h, this, value).outcome
    [] op = "pseudoElement" -> pseudoElement(h, this, value).outcome

\* The methods that would succeed on node this of heap h.
WouldSucceed(h, this) ==
  {op \in FragmentOps : \E value \in Values : OutcomeOf(h, this, op, value) = "ok"}

\* C11: a fragment call that fails with the duplicate or the order error
\* leaves the builder as it was: stringify() returns the same string after
\* it as before it, and the same calls would succeed next (as they do when
\* no field of any node changed).
C11_FailureChangesNothing ==
  [][(/\ last'.op \in FragmentOps
      /\ ~last'.facade
      /\ last'.outcome \in {DuplicateError, OrderError})
     => \/ heap' = heap
        \/ /\ Render(heap', last'.node) = Render(heap, last'.node)
           /\ WouldSucceed(heap', last'.node) = WouldSucceed(heap, last'.node)]_vars

\* id was refused for its order on a builder holding two fragments, which
\* still renders its two fragments.
C11_Witness ==
  /\ last.op = "id" /\ ~last.facade
  /\ last.outcome = OrderError
  /\ Len(hist[last.node]) = 2
  /\ Render(heap, last.node) = Expected(hist[last.node])
  /\ "id" \notin WouldSucceed(heap, last.node)
  /\ "pseudoElement" \in WouldSucceed(heap, last.node)

\* C12: a node returned by combine supports only stringify(): a call of
\* element, id, class, attr, pseudoClass or pseudoElement on it does not
\* succeed, adds no fragment to it and does not change what it renders.
C12_CombinationHasNoFragmentCalls ==
  [][(/\ last'.op \in FragmentOps
      /\ ~last'.facade
      /\ IsCombination(heap[last'.node]))
     => /\ last'.outcome # "ok"
        /\ heap'[last'.node].map = heap[last'.node].map
        /\ Render(heap', last'.node) = Render(heap, last'.node)]_vars

\* The text the map holds for a kind: nothing when the kind is absent.
TextOfKind(m, kind) ==
  IF mapHas(m, kind)
  THEN LET e == m[CHOOSE i \in 1..Len(m) : m[i].key = kind]
       IN IF e.isArray THEN join(e.value) ELSE e.value
  ELSE <<>>

\* The map rendered in the fixed kind order.
RenderInKindOrder(m) ==
  TextOfKind(m, TAG) \o TextOfKind(m, ID) \o TextOfKind(m, CLASS)
  \o TextOfKind(m, ATTRIBUTE) \o TextOfKind(m, PSEUDO_CLASS)
  \o TextOfKind(m, PSEUDO_ELEMENT)

\* C13: in every reachable state of a simple builder the kinds of the
\* fragment map stand in strictly increasing kind order (the order of their
\* first insertion), so the map rendered in its insertion order, as
\* stringify() does, is the map rendered in the fixed kind order; failed
\* insertions do not change this.
C13_MapInKindOrder ==
  \A this \in Nodes :
    LET m == heap[this].map
    IN /\ \A i \in 1..Len(m), j \in 1..Len(m) :
            i < j => KindRank(m[i].key) < KindRank(m[j].key)
       /\ Render(heap, this) = RenderInKindOrder(m)
       /\ Render(heap, this) = Expected(hist[this])

\* A builder holding three kinds, one of them twice, after a refused call.
C13_Witness ==
  /\ last.op \in FragmentOps /\ ~last.facade
  /\ last.outcome = OrderError
  /\ Len(heap[last.node].map) = 3
  /\ Len(hist[last.node]) = 4
  /\ Render(heap, last.node) = RenderInKindOrder(heap[last.node].map)

\* C14: element or id called on a builder that holds that fragment already
\* and a fragment of a later kind as well fails with the duplicate-fragment
\* error, not the order-violation error.
C14_DuplicateBeforeOrder ==
  [][(/\ last'.op \in {"element", "id"}
      /\ ~last'.facade
      /\ mapHas(heap[last'.node].map, KindOf(last'.op))
      /\ GreaterPresent(heap[last'.node], KindOf(last'.op)))
     => (last'.outcome = DuplicateError /\ last'.outcome # OrderError)]_vars

\* id was refused as a duplicate on a builder holding an id and a class.
C14_Witness ==
  /\ last.op = "id" /\ ~last.facade
  /\ last.outcome = DuplicateError
  /\ mapHas(heap[last.node].map, ID)
  /\ mapHas(heap[last.node].map, CLASS)

\* C15: pseudoElement never fails with the order-violation error: it fails
\* exactly when the builder already holds a PseudoElement fragment, with the
\* duplicate-fragment error, and succeeds otherwise.
C15_PseudoElementOnlyDuplicate ==
  [][(last'.op = "pseudoElement")
     => /\ last'.outcome # OrderError
        /\ last'.outcome =
             IF ~last'.facade /\ mapHas(heap[last'.node].map, PSEUDO_ELEMENT)
             THEN DuplicateError ELSE "ok"]_vars

\* pseudoElement succeeded on a builder holding a Type and a PseudoClass.
C15_Witness ==
  /\ last.op = "pseudoElement" /\ ~last.facade
  /\ last.outcome = "ok"
  /\ Len(heap[last.node].map) = 3
  /\ heap[last.node].map[1].key = TAG
  /\ heap[last.node].map[2].key = PSEUDO_CLASS
  /\ heap[last.node].map[3].key = PSEUDO_ELEMENT

====
